---- MODULE Spec2Model ----
(***************************************************************************)
(* A model of lounge's document instances (lib/basemodel.js):              *)
(* AbstractBaseModel's constructor, the Proxy set trap, set(), the error   *)
(* log and the toObject()/toJSON() serialization.  The per-field setter    *)
(* (lib/basemodel.utils.js) and Schema.add (lib/schema.js) are modelled    *)
(* from the written specification of the field pipeline.                   *)
(***************************************************************************)
EXTENDS Integers, Sequences, FiniteSets, TLC

VARIABLES
  descriptor,  \* schema.descriptor: field name -> field properties (shared)
  order,       \* the key order of schema.descriptor
  options,     \* schema.options
  docs,        \* the document instances: _private._obj, _private._errors
  last         \* the last call made and what it returned (observation only)

vars == <<descriptor, order, options, docs, last>>

(***************************************************************************)
(* Bounds                                                                  *)
(***************************************************************************)
\* set() is not called on a document whose error log already holds this many
MaxErrors == 2

\* the maxLength of the clipped field bio (255 in the documentation)
BioMaxLength == 3

\* stateAbbrev: {type: String, maxLength: 2}
StateAbbrevMaxLength == 2

\* the document instances the program builds
Instances == {"a", "b"}

(***************************************************************************)
(* Evaluation                                                              *)
(***************************************************************************)
\* F applied to the value of v, with v evaluated once
With(v, F(_)) == CHOOSE r \in {F(x) : x \in {v}} : TRUE

(***************************************************************************)
(* JavaScript values                                                       *)
(***************************************************************************)
Val(k, n, s, a) == [k |-> k, n |-> n, s |-> s, a |-> a]

Undefined == Val("undefined", 0, "", <<>>)

Null == Val("null", 0, "", <<>>)

Num(n) == Val("number", n, "", <<>>)

Str(s) == Val("string", 0, s, <<>>)

Bool(b) == Val("boolean", IF b THEN 1 ELSE 0, "", <<>>)

\* a plain array of strings
Arr(a) == Val("array", 0, "", a)

\* a plain object with n own keys
Obj(n) == Val("object", n, "", <<>>)

\* a Date with time value t
DateV(t) == Val("date", t, "", <<>>)

\* a nested document instance (_isBaseModel) whose toObject() has n keys
Doc(n) == Val("doc", n, "", <<>>)

(***************************************************************************)
(* Field names and the schemas of the documentation                        *)
(***************************************************************************)
Names ==
  {"friends", "email", "firstName", "lastName", "fullName", "data", "bio",
   "stateAbbrev", "emails", "foo", "_events"}

\* Object.getOwnPropertyNames(new EventEmitter()), of which "_events" is one
eventEmmiterInternals == {"_events"}

\* BaseModel = build(true)
extendEventEmitter == TRUE

NoDefault == [kind |-> "none", value |-> Undefined]

Literal(v) == [kind |-> "literal", value |-> v]

Producer(v) == [kind |-> "function", value |-> v]

Absent ==
  [defined |-> FALSE, type |-> "any", readOnly |-> FALSE, default |-> NoDefault,
   invisible |-> FALSE, virtual |-> FALSE, serializable |-> TRUE,
   validate |-> "none", transform |-> "none", get |-> "none", set |-> "none",
   maxLength |-> 0, clip |-> FALSE, unique |-> FALSE, arrayType |-> "none"]

Field(type) == [Absent EXCEPT !.defined = TRUE, !.type = type]

\* friends: Number
UserSchema ==
  [order |-> <<"friends">>,
   descriptor |-> [n \in Names |->
      CASE n = "friends" -> Field("number")
        [] OTHER -> Absent]]

\* email: {type: String, validate: validator.isEmail}, with a transform
EmailSchema ==
  [order |-> <<"email">>,
   descriptor |-> [n \in Names |->
      CASE n = "email" ->
             [Field("string") EXCEPT !.validate = "isEmail", !.transform = "lower"]
        [] OTHER -> Absent]]

\* fullName: {type: String, readOnly: true, default: function () {...}}
\* data: {type: 'any', default: d}
ProfileSchema(d) ==
  [order |-> <<"fullName", "data">>,
   descriptor |-> [n \in Names |->
      CASE n = "fullName" ->
             [Field("string") EXCEPT !.readOnly = TRUE,
                                     !.default = Producer(Str("Bob Smith"))]
        [] n = "data" -> [Field("any") EXCEPT !.default = d]
        [] OTHER -> Absent]]

\* firstName: String, lastName: String, and
\* userSchema.virtual('fullName', {get: ..., set: ...})
NameSchema ==
  [order |-> <<"firstName", "lastName", "fullName">>,
   descriptor |-> [n \in Names |->
      CASE n \in {"firstName", "lastName"} -> Field("string")
        [] n = "fullName" ->
             [Field("any") EXCEPT !.virtual = TRUE, !.invisible = TRUE,
                                  !.get = "joinNames", !.set = "splitName"]
        [] OTHER -> Absent]]

\* bio: {type: String, maxLength: ..., clip: true}
\* stateAbbrev: {type: String, maxLength: 2}
\* emails: {type: Array, unique: true, arrayType: String}
ConstraintSchema ==
  [order |-> <<"bio", "stateAbbrev", "emails">>,
   descriptor |-> [n \in Names |->
      CASE n = "bio" ->
             [Field("string") EXCEPT !.maxLength = BioMaxLength, !.clip = TRUE]
        [] n = "stateAbbrev" ->
             [Field("string") EXCEPT !.maxLength = StateAbbrevMaxLength]
        [] n = "emails" ->
             [Field("array") EXCEPT !.unique = TRUE, !.arrayType = "string"]
        [] OTHER -> Absent]]

DefaultChoices ==
  {NoDefault, Literal(Null), Literal(Num(0)), Literal(Bool(FALSE)), Literal(Str("")),
   Literal(Arr(<<>>)), Literal(Arr(<<"a">>)), Literal(Obj(0)), Literal(Obj(1)),
   Literal(DateV(1)), Producer(Doc(1)), Producer(Doc(0))}

\* the values the callers write, per field name
Inputs(name) ==
  CASE name = "friends" -> {Str("20"), Str("abc")}
    [] name = "email" -> {Str("bob@gmail.com"), Str("BOB@GMAIL.COM"), Str("bsmith")}
    [] name = "fullName" -> {Str("Jim Jones")}
    [] name = "bio" -> {Str("ab"), Str("abcde")}
    [] name = "stateAbbrev" -> {Str("NY"), Str("NYC")}
    [] name = "emails" -> {Arr(<<"a", "a", "b">>), Arr(<<"a", "b", "a">>)}
    [] name = "firstName" -> {Str("Bob")}
    [] name = "lastName" -> {Str("Smith")}
    [] name = "data" -> {Arr(<<"a">>), Null}
    [] name = "foo" -> {Num(1)}
    [] OTHER -> {Num(1)}

(***************************************************************************)
(* The field pipeline: transform, validate, typecast                       *)
(***************************************************************************)
\* the user's transform function of the email field: lower-cases
TransformFn(fn, v) ==
  IF fn = "lower" /\ v = Str("BOB@GMAIL.COM") THEN Str("bob@gmail.com") ELSE v

\* the user's validate function: validator.isEmail
ValidateFn(fn, v) ==
  IF fn = "isEmail" THEN v \in {Str("bob@gmail.com")} ELSE TRUE

NoCast == [ok |-> FALSE, value |-> Undefined]

Cast(v) == [ok |-> TRUE, value |-> v]

NumberText(n) == IF n = 20 THEN "20" ELSE IF n = 1 THEN "1" ELSE "0"

\* 4. Typecast to the declared type
Typecast(type, v) ==
  CASE type = "any" -> Cast(v)
    [] type = "string" ->
         CASE v.k = "string" -> Cast(v)
           [] v.k = "number" -> Cast(Str(NumberText(v.n)))
           [] v.k = "boolean" -> Cast(Str(IF v.n = 1 THEN "true" ELSE "false"))
           [] OTHER -> NoCast
    [] type = "number" ->
         CASE v.k = "number" -> Cast(v)
           [] v.k = "string" /\ v.s = "20" -> Cast(Num(20))
           [] v.k = "string" /\ v.s = "0" -> Cast(Num(0))
           [] v.k = "string" /\ v.s = "1" -> Cast(Num(1))
           [] OTHER -> NoCast
    [] type = "boolean" ->
         CASE v.k = "boolean" -> Cast(v)
           [] v.k = "number" -> Cast(Bool(v.n # 0))
           [] OTHER -> NoCast
    [] type = "date" -> IF v.k = "date" THEN Cast(v) ELSE NoCast
    [] type = "array" -> IF v.k = "array" THEN Cast(v) ELSE NoCast
    [] type = "object" -> IF v.k = "object" THEN Cast(v) ELSE NoCast
    [] OTHER -> NoCast

\* an array that keeps the last occurrence of each element
Unique_Last(a) ==
  IF a = <<>> THEN <<>>
  ELSE LET n == Len(a)
           keep == {x \in 1..n : \A y \in (x + 1)..n : a[y] # a[x]}
           f[x \in 0..n] ==
             IF x = 0 THEN <<>>
             ELSE IF x \in keep THEN Append(f[x - 1], a[x]) ELSE f[x - 1]
       IN  f[n]

\* unique: the elements in first-seen order, each once (=== on the elements)
Unique(a) ==
  IF a = <<>> THEN <<>>
  ELSE LET n == Len(a)
           keep == {x \in 1..n : \A y \in 1..(x - 1) : a[y] # a[x]}
           f[x \in 0..n] ==
             IF x = 0 THEN <<>>
             ELSE IF x \in keep THEN Append(f[x - 1], a[x]) ELSE f[x - 1]
       IN  f[n]

\* a maxLength that rejects the longer string whatever clip is
Constrain_NoClip(props, v) ==
  CASE v.k = "string" /\ props.maxLength > 0 /\ Len(v.s) > props.maxLength -> NoCast
    [] v.k = "array" /\ props.unique -> Cast(Arr(Unique(v.a)))
    [] OTHER -> Cast(v)

\* 5. Type-specific constraint checks on the casted value: maxLength rejects
\* unless clip, which truncates; unique de-duplicates the array's elements
\* (strings, which arrayType String casts to themselves)
Constrain(props, v) ==
  CASE v.k = "string" /\ props.maxLength > 0 /\ Len(v.s) > props.maxLength ->
         IF props.clip THEN Cast(Str(SubSeq(v.s, 1, props.maxLength))) ELSE NoCast
    [] v.k = "array" /\ props.unique -> Cast(Arr(Unique(v.a)))
    [] OTHER -> Cast(v)

\* apply(descriptor, rawValue, currentValue): the outcome of one write, the value
\* the field holds after it, and the steps that ran. fnThrows: the field's user
\* function raises on this call.
Apply(props, raw, current, fnThrows) ==
  LET hasFn == props.transform # "none" \/ props.validate # "none"
      t == IF props.transform # "none" THEN TransformFn(props.transform, raw) ELSE raw
      s1 == IF props.transform # "none" THEN <<"transform">> ELSE <<>>
      s2 == IF props.validate # "none" THEN Append(s1, "validate") ELSE s1
      c == Typecast(props.type, t)
      k == Constrain(props, c.value)
  IN  CASE props.readOnly ->
             [kind |-> "readOnly", value |-> current, steps |-> <<>>]
        [] ~props.readOnly /\ hasFn /\ fnThrows ->
             [kind |-> "threw", value |-> current, steps |-> <<>>]
        [] ~props.readOnly /\ ~(hasFn /\ fnThrows) /\ ~ValidateFn(props.validate, t) ->
             [kind |-> "validate", value |-> current, steps |-> s2]
        [] ~props.readOnly /\ ~(hasFn /\ fnThrows) /\ ValidateFn(props.validate, t) /\ ~c.ok ->
             [kind |-> "typecast", value |-> current, steps |-> Append(s2, "typecast")]
        [] ~props.readOnly /\ ~(hasFn /\ fnThrows) /\ ValidateFn(props.validate, t) /\ c.ok
           /\ ~k.ok ->
             [kind |-> "constraint", value |-> current,
              steps |-> s2 \o <<"typecast", "constrain">>]
        [] OTHER ->
             [kind |-> "stored", value |-> k.value,
              steps |-> s2 \o <<"typecast", "constrain", "store">>]

\* one record of the error log: its errorMessage, fieldSchema.name and setValue
SetterError(kind, name, value) ==
  [errorMessage |-> kind, field |-> name, setValue |-> value]

\* String(v) of a string or of undefined
Text(v) == IF v.k = "string" THEN v.s ELSE "undefined"

\* the index of the first space of s, 0 when it has none
FirstSpace(s) ==
  IF \E k \in 1..Len(s) : SubSeq(s, k, k) = " "
  THEN CHOOSE k \in 1..Len(s) :
         SubSeq(s, k, k) = " " /\ \A j \in 1..(k - 1) : SubSeq(s, j, j) # " "
  ELSE 0

\* v.split(' ') of a string with at most one space: parts[0] and parts[1]
Split(s) ==
  IF FirstSpace(s) = 0 THEN <<Str(s), Undefined>>
  ELSE <<Str(SubSeq(s, 1, FirstSpace(s) - 1)),
         Str(SubSeq(s, FirstSpace(s) + 1, Len(s)))>>

\* the virtual's get function: this.firstName + ' ' + this.lastName
VirtualGet(fn, obj) ==
  IF fn = "joinNames"
  THEN Str(Text(obj["firstName"]) \o " " \o Text(obj["lastName"]))
  ELSE Undefined

\* the getter of a field's accessor: a virtual field has no stored value
Getter(w, i, name) ==
  IF w.descriptor[name].virtual
  THEN VirtualGet(w.descriptor[name].get, w.docs[i].obj)
  ELSE w.docs[i].obj[name]

\* the setter of a stored field: the pipeline and what it stores or records
Pipeline(world, i, name, value, fnThrows) ==
  With(world, LAMBDA w :
    With(Apply(w.descriptor[name], value, w.docs[i].obj[name], fnThrows), LAMBDA r :
      CASE r.kind = "threw" -> [w EXCEPT !.steps = r.steps, !.thrown = TRUE]
        [] r.kind = "stored" ->
             [w EXCEPT !.steps = r.steps, !.docs[i].obj[name] = r.value]
        [] r.kind = "readOnly" -> [w EXCEPT !.steps = r.steps]
        [] OTHER ->
             [w EXCEPT !.steps = r.steps,
                       !.docs[i].errors = Append(@, SetterError(r.kind, name, value))]))

\* the virtual's set function: if (v !== undefined) { var parts = v.split(' ');
\* this.firstName = parts[0]; this.lastName = parts[1] }
VirtualSet(fn, world, i, value) ==
  IF fn = "splitName" /\ value.k = "string"
  THEN Pipeline(Pipeline(world, i, "firstName", Split(value.s)[1], FALSE),
                i, "lastName", Split(value.s)[2], FALSE)
  ELSE world

\* the accessor's setter that defineProperty binds to a field
Setter(world, i, name, value, fnThrows) ==
  With(world, LAMBDA w :
    IF w.descriptor[name].virtual
    THEN IF w.descriptor[name].set = "none" THEN w
         ELSE [VirtualSet(w.descriptor[name].set, w, i, value) EXCEPT !.steps = <<>>]
    ELSE Pipeline(w, i, name, value, fnThrows))

\* schema.add(index, properties)
SchemaAdd(world, name, props) ==
  With(world, LAMBDA w :
    IF w.descriptor[name].defined THEN w
    ELSE [w EXCEPT !.descriptor[name] = props, !.order = Append(@, name)])

(***************************************************************************)
(* The document instance                                                   *)
(***************************************************************************)
\* the state a call works on: the shared schema, the instances, whether an
\* exception is propagating, the pipeline steps of the last setter call, and the
\* writes made so far by the call (observation only)
World ==
  [descriptor |-> descriptor, order |-> order, docs |-> docs,
   thrown |-> FALSE, steps |-> <<>>, log |-> <<>>]

\* _private of an instance that has not been constructed
Blank ==
  [live |-> FALSE, fresh |-> FALSE, obj |-> [n \in Names |-> Undefined],
   errors |-> <<>>, accessors |-> {}]

(***************************************************************************)
(* Serialization: toObject(options), toJSON(options)                       *)
(***************************************************************************)
\* An options object. plain: the argument is a plain Object; each option is
\* "undefined", "true" or "false", and transform may also name a function.
NoOptions ==
  [plain |-> FALSE, useSchemaOptions |-> "undefined", transform |-> "undefined",
   json |-> "undefined", minimize |-> "undefined", virtuals |-> "undefined",
   serializable |-> "undefined", dateToISO |-> "undefined"]

Plain == [NoOptions EXCEPT !.plain = TRUE]

\* schema.options.toObject / schema.options.toJSON when the schema sets none
Unset == NoOptions

Truthy(x) == x \notin {"undefined", "false"}

IsFunction(x) == x \notin {"undefined", "false", "true"}

\* the user's transform functions (doc, ret, options): "dropData" deletes
\* ret.data and returns ret, "keep" returns nothing, "nothing" returns null
Xform(fn, ret) ==
  CASE fn = "dropData" ->
         [returned |-> "object",
          ret |-> [ret EXCEPT !["data"] = [present |-> FALSE, value |-> Undefined,
                                           shared |-> FALSE]]]
    [] fn = "nothing" -> [returned |-> "null", ret |-> ret]
    [] OTHER -> [returned |-> "undefined", ret |-> ret]

\* options filled key by key from the schema's options before the defaults
_prepareToObjectOptions_Merged(opts, json) ==
  LET layer == IF Truthy(json) THEN options.toJSON ELSE options.toObject
      given == IF opts.plain THEN opts ELSE Plain
      fill(key) == IF given[key] # "undefined" THEN given[key] ELSE layer[key]
  IN  [given EXCEPT
         !.transform = IF fill("transform") = "undefined" THEN "true"
                       ELSE fill("transform"),
         !.json = IF @ = "undefined" THEN json ELSE @,
         !.minimize = IF fill("minimize") = "undefined" THEN "true"
                      ELSE fill("minimize"),
         !.virtuals = fill("virtuals"),
         !.serializable = fill("serializable"),
         !.dateToISO = fill("dateToISO")]

\* _prepareToObjectOptions(options, json); json is "true" from toJSON and
\* "undefined" from toObject
_prepareToObjectOptions(opts, json) ==
  LET schemaOption == IF Truthy(json) THEN options.toJSON ELSE options.toObject
      defaultMinimizeOption ==
        IF schemaOption.plain /\ schemaOption.minimize \in {"true", "false"}
        THEN schemaOption.minimize ELSE "true"
      used ==
        IF ~opts.plain \/ Truthy(opts.useSchemaOptions)
        THEN IF Truthy(json)
             THEN [(IF options.toJSON.plain THEN options.toJSON ELSE Plain)
                     EXCEPT !.json = "true", !.useSchemaOptions = "true"]
             ELSE [(IF options.toObject.plain THEN options.toObject ELSE Plain)
                     EXCEPT !.json = "false", !.useSchemaOptions = "true"]
        ELSE opts
  IN  [used EXCEPT
         !.transform = IF @ = "undefined" THEN "true" ELSE @,
         !.json = IF @ = "undefined" THEN json ELSE @,
         !.minimize = IF @ = "undefined" THEN defaultMinimizeOption ELSE @]

NoEntry == [present |-> FALSE, value |-> Undefined, shared |-> FALSE]

\* _.size(value) of an array or a plain object
Size(v) == IF v.k = "array" THEN Len(v.a) ELSE v.n

\* a field that the _.each loop of _toObject leaves out of ret
Skipped(value) == [entry |-> NoEntry, stored |-> value, via |-> "none"]

\* Date.prototype.toISOString(), of the dates the model holds
toISOString(d) ==
  Str(IF d.n = 1 THEN "1970-01-01T00:00:00.001Z" ELSE "1970-01-01T00:00:00.000Z")

\* a field whose value passed the guards of the _.each loop: the entry written
\* into ret, the value the field stores afterwards, and the method a nested
\* document was serialized with
writeField(value, opts) ==
  LET skip == Skipped(value)
      write(v, shared) ==
        [entry |-> [present |-> TRUE, value |-> v, shared |-> shared],
         stored |-> value, via |-> "none"]
  IN  CASE value.k = "doc" ->
           \* value.toJSON(options) or value.toObject(options)
           LET via == IF Truthy(opts.json) THEN "toJSON" ELSE "toObject"
           IN  IF Truthy(opts.minimize) /\ value.n = 0
               THEN [skip EXCEPT !.via = via]
               ELSE [write(Obj(value.n), FALSE) EXCEPT !.via = via]
      [] value.k = "array" ->
           \* value = value.splice(0): the elements move to a new array
           IF Truthy(opts.minimize) /\ Size(value) = 0
           THEN [skip EXCEPT !.stored = Arr(<<>>)]
           ELSE [write(value, FALSE) EXCEPT !.stored = Arr(<<>>)]
      [] value.k = "date" ->
           \* ret[index] = d.toISOString() or ret[index] = new Date(...), value
           \* staying the stored date; and then ret[index] = value
           LET first == IF opts.dateToISO = "true"
                        THEN write(toISOString(value), FALSE)
                        ELSE write(value, FALSE)
           IN  [first EXCEPT !.entry = [present |-> TRUE, value |-> value,
                                        shared |-> TRUE]]
      [] value.k = "object" ->
           \* value = _.clone(value)
           IF Truthy(opts.minimize) /\ Size(value) = 0
           THEN skip
           ELSE write(value, FALSE)
      [] OTHER -> write(value, FALSE)

\* a minimize that leaves out every falsy value
toObjectField_Falsy(properties, value, opts) ==
  CASE properties.invisible /\ ~properties.virtual -> Skipped(value)
    [] properties.virtual /\ ~Truthy(opts.virtuals) -> Skipped(value)
    [] ~properties.serializable /\ opts.serializable = "false" -> Skipped(value)
    [] Truthy(opts.minimize)
       /\ value \in {Undefined, Null, Num(0), Bool(FALSE), Str("")} -> Skipped(value)
    [] OTHER -> writeField(value, opts)

\* a loop that writes the virtual fields whatever options.virtuals is
toObjectField_Virtuals(properties, value, opts) ==
  CASE properties.invisible /\ ~properties.virtual -> Skipped(value)
    [] ~properties.serializable /\ opts.serializable = "false" -> Skipped(value)
    [] Truthy(opts.minimize) /\ value.k \in {"undefined", "null"} -> Skipped(value)
    [] OTHER -> writeField(value, opts)

\* one field of the _.each loop of _toObject
toObjectField(properties, value, opts) ==
  CASE properties.invisible /\ ~properties.virtual -> Skipped(value)
    [] properties.virtual /\ ~Truthy(opts.virtuals) -> Skipped(value)
    [] ~properties.serializable /\ opts.serializable = "false" -> Skipped(value)
    [] Truthy(opts.minimize) /\ value.k \in {"undefined", "null"} -> Skipped(value)
    [] OTHER -> writeField(value, opts)

\* a call of the transform whose result is dropped when it is null as well
callTransform_NonNull(transform, ret) ==
  IF IsFunction(transform)
  THEN With(Xform(transform, ret), LAMBDA xformed :
         IF xformed.returned \notin {"undefined", "null"}
         THEN [calls |-> 1, returned |-> xformed.returned, out |-> xformed.ret]
         ELSE [calls |-> 1, returned |-> "object", out |-> ret])
  ELSE [calls |-> 0, returned |-> "object", out |-> ret]

\* if (typeof transform === 'function') { const xformed = transform(this, ret,
\* options); if (typeof xformed !== 'undefined') { ret = xformed } }: what
\* _toObject returns ("object": an object with the entries out; "null": null)
callTransform(transform, ret) ==
  IF IsFunction(transform)
  THEN With(Xform(transform, ret), LAMBDA xformed :
         IF xformed.returned # "undefined"
         THEN [calls |-> 1, returned |-> xformed.returned, out |-> xformed.ret]
         ELSE [calls |-> 1, returned |-> "object", out |-> ret])
  ELSE [calls |-> 0, returned |-> "object", out |-> ret]

\* _toObject(options, json): the instance afterwards and what is returned
_toObject(world, i, options0, json) ==
  With(world, LAMBDA w :
    With(_prepareToObjectOptions(options0, json), LAMBDA opts :
      With([n \in Names |->
              IF w.descriptor[n].defined
              THEN toObjectField(w.descriptor[n], Getter(w, i, n), opts)
              ELSE Skipped(w.docs[i].obj[n])],
           LAMBDA each :
        LET ret == [n \in Names |-> each[n].entry]
            resolve == opts.transform = "true"
                       \/ (options.toObject.plain /\ Truthy(opts.transform))
            schemaOpts == IF Truthy(opts.json) THEN options.toJSON ELSE options.toObject
            transform ==
              IF resolve /\ schemaOpts.plain
              THEN IF IsFunction(opts.transform) THEN opts.transform
                   ELSE schemaOpts.transform
              ELSE opts.transform
            called == IsFunction(transform)
        IN  With(callTransform(transform, ret), LAMBDA end :
              [w |-> [w EXCEPT !.docs[i].obj =
                        [n \in Names |-> IF w.descriptor[n].virtual THEN @[n]
                                         ELSE each[n].stored]],
               result |->
                 [built |-> TRUE, given |-> options0, json |-> json, options |-> opts,
                  read |-> [n \in Names |-> Getter(w, i, n)], fresh |-> w.docs[i].fresh, ret |-> ret,
                  nested |-> {each[n].via : n \in Names} \ {"none"},
                  consulted |-> IF resolve
                                THEN (IF Truthy(opts.json) THEN "toJSON" ELSE "toObject")
                                ELSE "none",
                  transform |-> IF called THEN transform ELSE "none",
                  calls |-> end.calls,
                  returned |-> end.returned,
                  out |-> end.out]]))))

\* toObject(options)
toObject(w, i, opts) == _toObject(w, i, opts, "undefined")

\* toJSON(options)
toJSON(w, i, opts) == _toObject(w, i, opts, "true")

(***************************************************************************)
(* Writes: the Proxy set trap, set(), the constructor                      *)
(***************************************************************************)
IsPrefix(s, t) == Len(s) <= Len(t) /\ SubSeq(t, 1, Len(s)) = s

\* what a write did, seen from outside: what the pipeline makes of the input
\* (class), the stored value after it and whether that is the value before it
\* (kept), how many records the error log gained (added) and whether the old
\* records are still its first ones (appended), and whether the schema changed
Observed(w0, w1, i, name, value, fnThrows, via) ==
  [via |-> via, name |-> name, value |-> value,
   declared |-> w0.descriptor[name].defined,
   readOnly |-> w0.descriptor[name].readOnly,
   class |-> IF w0.descriptor[name].virtual THEN "virtual"
             ELSE Apply(w0.descriptor[name], value, w0.docs[i].obj[name], fnThrows).kind,
   after |-> w1.docs[i].obj[name],
   kept |-> w1.docs[i].obj = w0.docs[i].obj,
   added |-> Len(w1.docs[i].errors) - Len(w0.docs[i].errors),
   appended |-> IsPrefix(w0.docs[i].errors, w1.docs[i].errors),
   recorded |-> IF Len(w1.docs[i].errors) > Len(w0.docs[i].errors)
                THEN w1.docs[i].errors[Len(w1.docs[i].errors)].errorMessage
                ELSE "none",
   schemaKept |-> w1.descriptor = w0.descriptor /\ w1.order = w0.order,
   sameOutput |-> \/ w1.descriptor = w0.descriptor /\ w1.docs[i].obj = w0.docs[i].obj
                  \/ toObject(w1, i, NoOptions).result.out
                       = toObject(w0, i, NoOptions).result.out,
   steps |-> w1.steps, thrown |-> w1.thrown]

\* the world after a write, with the write added to the call's log
Logged(before, after, i, name, value, fnThrows, via) ==
  With(before, LAMBDA w0 :
    With(after, LAMBDA w1 :
      With(Observed(w0, w1, i, name, value, fnThrows, via), LAMBDA wr :
        [w1 EXCEPT !.log = Append(@, wr)])))

\* a field added to the instance alone, the schema left as it was
_addToSchema_Local(w, i, index, properties) ==
  [w EXCEPT !.docs[i].accessors = @ \cup {index}]

\* Add field to schema and initializes getter and setter for the field.
_addToSchema(w, i, index, properties) ==
  LET w1 == SchemaAdd(w, index, properties)
  IN  [w1 EXCEPT !.docs[i].accessors = @ \cup {index}]

\* a set that misses the accessor and writes a plain property
ReflectSet_Plain(w, i, name, value, fnThrows) ==
  [w EXCEPT !.docs[i].obj[name] = value]

\* Reflect.set(target, name, value, receiver): the field's accessor when the
\* instance has one, a plain property of the target otherwise
ReflectSet(world, i, name, value, fnThrows) ==
  With(world, LAMBDA w :
    IF name \in w.docs[i].accessors
    THEN Setter(w, i, name, value, fnThrows)
    ELSE [w EXCEPT !.docs[i].obj[name] = value])

\* a trap without the strict-mode branch
ProxySet_NoStrict(w, i, name, value, fnThrows) ==
  With([w EXCEPT !.steps = <<>>], LAMBDA w0 :
    IF ~w0.descriptor[name].defined
    THEN IF extendEventEmitter /\ name \in eventEmmiterInternals
         THEN [w |-> w0, ok |-> TRUE]
         ELSE [w |-> ReflectSet(_addToSchema(w0, i, name, Field("any")),
                                i, name, value, fnThrows),
               ok |-> TRUE]
    ELSE [w |-> ReflectSet(w0, i, name, value, fnThrows), ok |-> TRUE])

\* the Proxy's set trap; schema.options.dotNotation is off. ok is what the trap
\* returns: false makes the assignment raise a TypeError in strict-mode code.
ProxySet(w, i, name, value, fnThrows) ==
  With([w EXCEPT !.steps = <<>>], LAMBDA w0 :
    IF ~w0.descriptor[name].defined
    THEN IF extendEventEmitter /\ name \in eventEmmiterInternals
         THEN [w |-> w0, ok |-> TRUE]
         ELSE IF options.strict
              THEN [w |-> w0, ok |-> FALSE]
              ELSE [w |-> ReflectSet(_addToSchema(w0, i, name, Field("any")),
                                     i, name, value, fnThrows),
                    ok |-> TRUE]
    ELSE [w |-> ReflectSet(w0, i, name, value, fnThrows), ok |-> TRUE])

\* this[_privateKey]._this[key] = value, in the strict-mode code of the class
AssignThroughProxy(w, i, name, value, fnThrows) ==
  With(ProxySet(w, i, name, value, fnThrows), LAMBDA r :
    [r.w EXCEPT !.thrown = @ \/ ~r.ok])

\* the assignment without the try ... catch around it
TryAssign_NoCatch(w, i, name, value, fnThrows) ==
  AssignThroughProxy(w, i, name, value, fnThrows)

\* try { this[_privateKey]._this[path] = value } catch (err) {}
TryAssign(w, i, name, value, fnThrows) ==
  [AssignThroughProxy(w, i, name, value, fnThrows) EXCEPT !.thrown = FALSE]

\* set(path, value) with a string path
set(world, i, path, value, fnThrows) ==
  With(world, LAMBDA w :
    Logged(w, TryAssign(w, i, path, value, fnThrows), i, path, value, fnThrows, "set"))

\* set(map): for (const key in value) if (value.hasOwnProperty(key)) ...
RECURSIVE setMap(_, _, _, _, _)
setMap(world, i, map, fnThrows, via) ==
  With(world, LAMBDA w :
    IF map = <<>> THEN w
    ELSE LET kv == Head(map)
         IN  setMap(Logged(w, TryAssign(w, i, kv.key, kv.value, fnThrows),
                           i, kv.key, kv.value, fnThrows, via),
                    i, Tail(map), fnThrows, via))

\* Populate schema defaults into object: the fields are visited in schema order;
\* throwAt is the field whose default producer raises ("" for none)
RECURSIVE populateDefaults(_, _, _, _, _)
populateDefaults(world, i, fields, throwAt, fnThrows) ==
  With(world, LAMBDA w :
    IF fields = <<>> \/ w.thrown THEN w
    ELSE LET index == Head(fields)
             properties == w.descriptor[index]
             readOnly == properties.readOnly
             lifted == [w EXCEPT !.descriptor[index].readOnly = FALSE]
         IN  IF properties.default.kind = "none"
             THEN populateDefaults(w, i, Tail(fields), throwAt, fnThrows)
             ELSE IF properties.default.kind = "function" /\ throwAt = index
                  THEN [lifted EXCEPT !.thrown = TRUE]
                  ELSE With(Logged(lifted,
                                   Setter(lifted, i, index, properties.default.value,
                                          fnThrows),
                                   i, index, properties.default.value, fnThrows,
                                   "default"),
                            LAMBDA written :
                              IF written.thrown
                              THEN written
                              ELSE populateDefaults(
                                     [written EXCEPT !.descriptor[index].readOnly = readOnly],
                                     i, Tail(fields), throwAt, fnThrows)))

\* new Model(values): values is a map, or <<>> with hasValues false for none
constructor(w, i, hasValues, values, throwAt, fnThrows) ==
  LET fresh == [w EXCEPT !.docs[i] =
                   [Blank EXCEPT !.accessors = {n \in Names : w.descriptor[n].defined}]]
  IN  With(populateDefaults(fresh, i, w.order, throwAt, fnThrows), LAMBDA defaults :
        IF defaults.thrown
        THEN [defaults EXCEPT !.docs[i] = Blank]
        ELSE [(IF hasValues THEN setMap(defaults, i, values, fnThrows, "values")
               ELSE defaults)
                EXCEPT !.docs[i].live = TRUE, !.docs[i].fresh = TRUE])

\* getErrors()
getErrors(w, i) == w.docs[i].errors

\* a clearErrors() that drops the last record only
clearErrors_Pop(w, i) ==
  [w EXCEPT !.docs[i].errors = SubSeq(@, 1, IF Len(@) = 0 THEN 0 ELSE Len(@) - 1)]

\* clearErrors(): this[_privateKey]._errors.length = 0
clearErrors(w, i) == [w EXCEPT !.docs[i].errors = <<>>]

\* hasErrors()
hasErrors(w, i) == Len(w.docs[i].errors) # 0

(***************************************************************************)
(* The calls the program makes                                             *)
(***************************************************************************)
NoResult == [built |-> FALSE]

\* the options the callers pass to toObject() and toJSON()
CallOptions ==
  {NoOptions, Plain,
   [Plain EXCEPT !.minimize = "false"],
   [Plain EXCEPT !.minimize = "true", !.virtuals = "true"],
   [Plain EXCEPT !.json = "false"],
   [Plain EXCEPT !.transform = "dropData"],
   [Plain EXCEPT !.transform = "nothing"],
   [Plain EXCEPT !.transform = "false", !.serializable = "false"],
   [Plain EXCEPT !.dateToISO = "true"],
   [Plain EXCEPT !.useSchemaOptions = "true", !.minimize = "false"]}

\* what a schema sets as its toObject / toJSON options
SchemaOptions ==
  {Unset,
   [Plain EXCEPT !.virtuals = "true", !.minimize = "false", !.dateToISO = "true"],
   [Plain EXCEPT !.transform = "keep", !.serializable = "false"]}

\* the names a caller writes: the declared fields and two undeclared ones
Keys == {n \in Names : descriptor[n].defined} \cup {"foo", "_events"}

KeyValues == UNION {{[key |-> n, value |-> v] : v \in Inputs(n)} : n \in Keys}

\* the maps a caller passes: no key, one key, or a declared field's key and
\* then another key
Maps ==
  {<<>>} \cup {<<kv>> : kv \in KeyValues}
  \cup {<<kv[1], kv[2]>> : kv \in {p \in KeyValues \X KeyValues :
                                      /\ descriptor[p[1].key].defined
                                      /\ p[1].key # p[2].key}}

\* the fields whose user functions may raise
Raising(name) ==
  descriptor[name].defined
  /\ (descriptor[name].transform # "none" \/ descriptor[name].validate # "none")

\* a method of the instance has been called since its constructor returned
\* (observation only)
Used(w, i) == [w EXCEPT !.docs[i].fresh = FALSE]

Within(w) == \A i \in Instances : Len(w.docs[i].errors) <= MaxErrors

Commit(world, op, i, result) ==
  \E w \in {world} :
    /\ Within(w)
    /\ descriptor' = w.descriptor
    /\ order' = w.order
    /\ docs' = w.docs
    /\ options' = options
    /\ last' = [op |-> op, inst |-> i, log |-> w.log, raised |-> w.thrown,
                result |-> result]

\* new Model() and new Model(values); the instances are named in the order of
\* their construction
Construct(i) ==
  /\ ~docs[i].live
  /\ i = "b" => docs["a"].live
  /\ \E hasValues \in BOOLEAN,
        fnThrows \in {FALSE} \cup {t \in {TRUE} : \E n \in Names : Raising(n)},
        throwAt \in {""} \cup {n \in Names : descriptor[n].default.kind = "function"} :
       \E values \in (IF hasValues THEN Maps ELSE {<<>>}) :
         Commit(constructor(World, i, hasValues, values, throwAt, fnThrows),
                "construct", i, NoResult)

\* doc.set(path, value)
Set(i) ==
  /\ docs[i].live
  /\ \E path \in Keys :
       \E value \in Inputs(path), fnThrows \in {FALSE} \cup {t \in {TRUE} : Raising(path)} :
         /\ Commit(Used(set(World, i, path, value, fnThrows), i), "set", i, NoResult)

\* doc.set(map), with a map of two keys (of one key: the constructor's values)
SetMap(i) ==
  /\ docs[i].live
  /\ \E map \in {m \in Maps : Len(m) = 2}, fnThrows \in BOOLEAN :
       /\ fnThrows => \E x \in 1..Len(map) : Raising(map[x].key)
       /\ Commit(Used(setMap(World, i, map, fnThrows, "setMap"), i), "setMap", i,
                 NoResult)

\* doc[name] = value, written by the caller; in sloppy-mode code a false from
\* the trap raises nothing
Assign(i) ==
  /\ docs[i].live
  /\ \E name \in Keys, fnThrows \in BOOLEAN, callerStrict \in BOOLEAN :
       \E value \in Inputs(name) :
         \E r \in {ProxySet(World, i, name, value, fnThrows)} :
           /\ fnThrows => Raising(name)
           /\ ~callerStrict => ~r.ok
           /\ Commit(Used(Logged(World,
                                 [r.w EXCEPT !.thrown = @ \/ (~r.ok /\ callerStrict)],
                                 i, name, value, fnThrows, "assign"), i),
                     "assign", i, NoResult)

\* doc.clearErrors()
ClearErrors(i) ==
  /\ docs[i].live
  /\ Commit(clearErrors(World, i), "clearErrors", i, NoResult)

\* doc.toObject(options)
ToObject(i, given) ==
  /\ docs[i].live
  /\ \E opts \in given :
       \E r \in {toObject(World, i, opts)} :
         Commit(Used(r.w, i), "toObject", i, r.result)

\* doc.toJSON(options)
ToJSON(i, given) ==
  /\ docs[i].live
  /\ \E opts \in given :
       \E r \in {toJSON(World, i, opts)} :
         Commit(Used(r.w, i), "toJSON", i, r.result)

(***************************************************************************)
(* The specification                                                       *)
(***************************************************************************)
Start(schema, strict, toObjectOptions, toJSONOptions) ==
  /\ descriptor = schema.descriptor
  /\ order = schema.order
  /\ options = [strict |-> strict, toObject |-> toObjectOptions,
                toJSON |-> toJSONOptions]
  /\ docs = [i \in Instances |-> Blank]
  /\ last = [op |-> "init", inst |-> "a", log |-> <<>>, raised |-> FALSE,
             result |-> NoResult]

\* The documents of the three schemas are written, and serialized with the
\* default options.
Init ==
  \/ \E strict \in BOOLEAN : Start(UserSchema, strict, Unset, Unset)
  \/ Start(EmailSchema, TRUE, Unset, Unset)
  \/ Start(ProfileSchema(NoDefault), TRUE, Unset, Unset)

Next ==
  \E i \in Instances :
    \/ Construct(i)
    \/ Set(i)
    \/ SetMap(i)
    \/ Assign(i)
    \/ ClearErrors(i)
    \/ ToObject(i, {NoOptions, [Plain EXCEPT !.minimize = "false"]})

Spec == Init /\ [][Next]_vars

\* One document of the profile schema, with each default of its data field
\* and each setting of the schema's toObject and toJSON options, is serialized
\* with each of the call-time options.
SerialInit ==
  \E d \in DefaultChoices, o \in SchemaOptions, j \in SchemaOptions :
    Start(ProfileSchema(d), TRUE, o, j)

SerialNext ==
  \/ Construct("a")
  \/ Set("a")
  \/ ToObject("a", CallOptions)
  \/ ToJSON("a", CallOptions)

SerialSpec == SerialInit /\ [][SerialNext]_vars

\* a for ... in loop that ends after its first key
Entries_First(ret, keys) ==
  IF keys = <<>> THEN <<>>
  ELSE IF ret[Head(keys)].present
       THEN <<[key |-> Head(keys), value |-> ret[Head(keys)].value]>>
       ELSE <<>>

\* the own keys of a toObject() result with their values, as set(map) visits
\* them: for (const key in value) if (value.hasOwnProperty(key)) ...
RECURSIVE Entries(_, _)
Entries(ret, keys) ==
  IF keys = <<>> THEN <<>>
  ELSE (IF ret[Head(keys)].present
        THEN <<[key |-> Head(keys), value |-> ret[Head(keys)].value]>>
        ELSE <<>>) \o Entries(ret, Tail(keys))

\* y = new Model(); y.set(x.toObject()), with x the instance "a" and y the
\* instance "b"
RoundTrip ==
  /\ docs["a"].live
  /\ ~docs["b"].live
  /\ \E made \in {constructor(World, "b", FALSE, <<>>, "", FALSE)} :
       \E r \in {toObject([made EXCEPT !.log = <<>>], "a", NoOptions)} :
         /\ ~made.thrown
         /\ Commit(Used(setMap(r.w, "b", Entries(r.result.out, r.w.order), FALSE,
                               "setMap"), "b"),
                   "roundTrip", "b",
                   [built |-> TRUE, x |-> docs["a"].obj, made |-> made.docs["b"].obj,
                    out |-> r.result.out])

\* An instance of a schema without virtual, transform or invisible fields is
\* written and then copied into a second instance through toObject().
RoundInit ==
  \/ \E strict \in BOOLEAN : Start(UserSchema, strict, Unset, Unset)
  \/ \E d \in DefaultChoices : Start(ProfileSchema(d), TRUE, Unset, Unset)

RoundNext ==
  \/ Construct("a")
  \/ Set("a")
  \/ ToObject("a", {NoOptions})
  \/ RoundTrip

RoundSpec == RoundInit /\ [][RoundNext]_vars

\* A document with a virtual field is written and serialized with and without
\* the virtuals option.
VirtualInit == Start(NameSchema, TRUE, Unset, Unset)

VirtualNext ==
  \/ Construct("a")
  \/ Set("a")
  \/ Assign("a")
  \/ ToObject("a", {NoOptions, [Plain EXCEPT !.virtuals = "true"]})
  \/ ToJSON("a", {NoOptions, [Plain EXCEPT !.virtuals = "true"]})

VirtualSpec == VirtualInit /\ [][VirtualNext]_vars

\* A document with length-limited strings and a duplicate-free array is
\* written.
ConstraintInit == Start(ConstraintSchema, TRUE, Unset, Unset)

ConstraintNext ==
  \/ Construct("a")
  \/ Set("a")
  \/ Assign("a")
  \/ ClearErrors("a")

ConstraintSpec == ConstraintInit /\ [][ConstraintNext]_vars

(***************************************************************************)
(* Properties                                                              *)
(***************************************************************************)
\* the writes of the last call
Writes == {last.log[x] : x \in 1..Len(last.log)}

\* the writes that set() made, called directly or by the constructor
SetWrites == {wr \in Writes : wr.via \in {"set", "setMap", "values"}}

\* C1: a write through set() of a raw input that fails the typecast to the
\* field's declared type leaves the stored values as they were and adds
\* exactly one record to the error log.
C1_TypecastFailureKeepsValue ==
  \A wr \in SetWrites :
    wr.class = "typecast" => wr.kept /\ wr.added = 1 /\ wr.appended

C1_Witness ==
  /\ last.op = "set"
  /\ \E wr \in SetWrites :
       /\ wr.name = "friends" /\ wr.value = Str("abc") /\ wr.class = "typecast"
       /\ wr.after = Num(20)

\* C2: set(path, value) and set(map) return normally whatever happens to the
\* writes: a rejected validation, a failed typecast, a strict-mode rejection
\* or an exception raised inside the field's setter.
C2_SetReturnsNormally ==
  /\ last.op \in {"set", "setMap"} => ~last.raised
  /\ \A wr \in SetWrites : ~wr.thrown

C2_Witness ==
  /\ last.op = "setMap"
  /\ ~last.raised
  /\ \E wr \in SetWrites : wr.class = "threw"

\* C3: when a field's validate function returns false for the transformed
\* input the write is aborted: the stored values are unchanged, one validation
\* error is recorded, and neither the typecast nor the constraint checks run.
C3_ValidateAborts ==
  \A wr \in Writes :
    wr.class = "validate" =>
      /\ wr.kept
      /\ wr.added = 1
      /\ wr.recorded = "validate"
      /\ \A x \in 1..Len(wr.steps) : wr.steps[x] \notin {"typecast", "constrain", "store"}

C3_Witness ==
  /\ last.op = "set"
  /\ \E wr \in Writes :
       /\ wr.name = "email" /\ wr.value = Str("bsmith") /\ wr.class = "validate"
       /\ wr.after = Str("bob@gmail.com")
       /\ wr.steps = <<"transform", "validate">>

\* the fields that the schema definitions mark readOnly
ReadOnlyFields == {"fullName"}

\* C4: a write to a field marked readOnly that is not the constructor's default
\* population (set(), an assignment, the values given to the constructor)
\* leaves the stored value unchanged and records no error.
C4_ReadOnlyIgnoresWrites ==
  \A wr \in Writes :
    (wr.name \in ReadOnlyFields /\ wr.via # "default") => wr.kept /\ wr.added = 0

\* C5: with strict on, a write to a name the schema does not declare changes
\* neither the schema nor the instance's values nor its toObject() output, and
\* set() returns normally.
C5_StrictIgnoresUnknown ==
  options.strict =>
    /\ \A wr \in Writes :
         ~wr.declared => wr.kept /\ wr.schemaKept /\ wr.sameOutput /\ wr.added = 0
    /\ \A wr \in SetWrites : ~wr.thrown
    /\ last.op \in {"set", "setMap"} => ~last.raised

C5_Witness ==
  /\ options.strict
  /\ last.op = "setMap"
  /\ \E wr \in SetWrites : ~wr.declared /\ wr.name = "foo" /\ wr.value = Num(1)

\* the undeclared names that are no internals of the event emitter
Dynamic == {"foo"}

DefaultOutput(i) == toObject(World, i, NoOptions).result.out

FullOutput(i) == toObject(World, i, [Plain EXCEPT !.minimize = "false"]).result.out

\* with strict off, a write to an undeclared name adds the name to the shared
\* schema as an 'any' field and stores the value on the instance
DynamicWriteExtends ==
  ~options.strict =>
    \A wr \in Writes :
      (wr.name \in Dynamic /\ ~wr.declared) =>
        /\ descriptor[wr.name] = Field("any")
        /\ \E x \in 1..Len(order) : order[x] = wr.name
        /\ wr.after = wr.value
        /\ wr.name \in docs[last.inst].accessors

\* C6 as stated: ... and every instance constructed afterwards has the slot,
\* and its toObject() includes it.
C6_Original ==
  /\ DynamicWriteExtends
  /\ \A n \in Dynamic :
       (last.op = "construct" /\ ~last.raised /\ descriptor[n].defined) =>
         /\ n \in docs[last.inst].accessors
         /\ DefaultOutput(last.inst)[n].present

\* C6, amended: with strict off, a write to an undeclared name adds it to the
\* shared schema as an 'any' field and stores the value on the instance; every
\* instance constructed afterwards has an accessor for it, and the toObject()
\* of any instance holds the key when minimize is false, and with the default
\* minimize exactly when the instance itself stores a value for it that is not
\* undefined, null or empty.
C6_DynamicFieldIsShared ==
  /\ DynamicWriteExtends
  /\ \A n \in Dynamic :
       /\ (last.op = "construct" /\ ~last.raised /\ descriptor[n].defined) =>
            n \in docs[last.inst].accessors
       /\ \A i \in Instances :
            (docs[i].live /\ descriptor[n].defined) =>
              /\ FullOutput(i)[n].present
              /\ DefaultOutput(i)[n].present <=>
                   ~(\/ docs[i].obj[n].k \in {"undefined", "null"}
                     \/ docs[i].obj[n].k \in {"array", "object", "doc"}
                        /\ Size(docs[i].obj[n]) = 0)

C6_Witness ==
  /\ ~options.strict
  /\ last.op = "construct" /\ last.inst = "b" /\ ~last.raised
  /\ descriptor["foo"].defined
  /\ docs["a"].obj["foo"] = Num(1)
  /\ docs["b"].obj["foo"] = Undefined
  /\ FullOutput("b")["foo"].present
  /\ ~DefaultOutput("b")["foo"].present

\* C7: the error log is append-only between two clearErrors(): every write
\* keeps the records it found, in their order, and adds one record when the
\* pipeline rejects the input and none otherwise; no other call changes the
\* log; hasErrors() is true exactly when the log is not empty; after
\* clearErrors() the log is empty.
ErrorLogInvariant ==
  /\ \A wr \in Writes :
       /\ wr.appended
       /\ wr.added = (IF wr.class \in {"validate", "typecast", "constraint"} THEN 1
                       ELSE 0)
  /\ \A i \in Instances :
       /\ hasErrors(World, i) <=> Len(getErrors(World, i)) > 0
       /\ ~docs[i].live => getErrors(World, i) = <<>>
  /\ last.op = "clearErrors" =>
       getErrors(World, last.inst) = <<>> /\ ~hasErrors(World, last.inst)

ErrorLogStep ==
  \A i \in Instances :
    \/ last'.op = "clearErrors" /\ last'.inst = i
    \/ IsPrefix(docs[i].errors, docs'[i].errors)

C7_ErrorLogAppendOnly == []ErrorLogInvariant /\ [][ErrorLogStep]_vars

C7_Witness ==
  /\ last.op = "set"
  /\ Len(docs[last.inst].errors) = 2
  /\ \E wr \in Writes : wr.added = 1 /\ wr.appended

(***************************************************************************)
(* Serialization                                                           *)
(***************************************************************************)
Serialized == last.op \in {"toObject", "toJSON"}

\* the fields that no guard of the loop but minimize leaves out
Eligible(opts) ==
  {n \in Names :
     /\ descriptor[n].defined
     /\ ~(descriptor[n].invisible /\ ~descriptor[n].virtual)
     /\ ~(descriptor[n].virtual /\ ~Truthy(opts.virtuals))
     /\ ~(~descriptor[n].serializable /\ opts.serializable = "false")}

Empty(v) ==
  \/ v.k \in {"undefined", "null"}
  \/ v.k \in {"array", "object", "doc"} /\ Size(v) = 0

FalsyScalars == {Num(0), Bool(FALSE), Str("")}

\* C8: toObject() with minimize true on a freshly constructed instance leaves
\* out every field whose value is undefined, null or an empty array or
\* object, and holds every field whose value is 0, false or the empty string,
\* with that value.
C8_MinimizeKeepsFalsyScalars ==
  (Serialized /\ last.result.fresh /\ Truthy(last.result.options.minimize)) =>
    \A n \in Eligible(last.result.options) :
      LET v == last.result.read[n]
      IN  /\ Empty(v) => ~last.result.ret[n].present /\ ~last.result.out[n].present
          /\ v \in FalsyScalars =>
               /\ last.result.ret[n] = [present |-> TRUE, value |-> v, shared |-> FALSE]
               /\ last.result.transform = "none" => last.result.out[n] = last.result.ret[n]

C8_Witness ==
  /\ last.op = "toObject" /\ last.result.fresh
  /\ last.result.given = NoOptions
  /\ last.result.options.minimize = "true"
  /\ last.result.read["data"] = Num(0)
  /\ last.result.out["data"] = [present |-> TRUE, value |-> Num(0), shared |-> FALSE]
  /\ ~last.result.out["foo"].present

OptionDefaults ==
  [transform |-> "true", minimize |-> "true", virtuals |-> "false",
   serializable |-> "true", dateToISO |-> "false"]

OptionKeys == {"transform", "minimize", "virtuals", "serializable", "dateToISO"}

Layer(o) == IF o.plain THEN o ELSE Plain

OrElse(x, y) == IF x # "undefined" THEN x ELSE y

\* what the serialization does for each option under the option set it used
Effective(result) ==
  [transform |-> result.transform,
   minimize |-> IF Truthy(result.options.minimize) THEN "true" ELSE "false",
   virtuals |-> IF Truthy(result.options.virtuals) THEN "true" ELSE "false",
   serializable |-> IF result.options.serializable = "false" THEN "false" ELSE "true",
   dateToISO |-> IF result.options.dateToISO = "true" THEN "true" ELSE "false"]

\* the transform function that an option value stands for
Called(x) == IF IsFunction(x) THEN x ELSE "none"

C10_ToJSONForcesJson ==
  last.op = "toJSON" =>
    /\ last.result.options.json = "true"
    /\ last.result.nested \subseteq {"toJSON"}
    /\ last.result.consulted \in {"toJSON", "none"}

\* the transform function that a call resolves: the call-time function, else
\* the function of the schema-level options that are looked up
Resolved(r) ==
  LET passed == r.given.plain /\ ~Truthy(r.given.useSchemaOptions)
      base == IF passed THEN r.given
              ELSE Layer(IF Truthy(r.json) THEN options.toJSON ELSE options.toObject)
      lookup == Layer(IF Truthy(r.options.json) THEN options.toJSON
                      ELSE options.toObject)
  IN  CASE IsFunction(base.transform) -> base.transform
        [] base.transform = "false" -> "none"
        [] OTHER -> Called(lookup.transform)

\* the resolved transform is invoked once, and never when none is resolved
TransformInvoked ==
  Serialized =>
    /\ last.result.transform = Resolved(last.result)
    /\ last.result.calls = (IF Resolved(last.result) = "none" THEN 0 ELSE 1)
    /\ Resolved(last.result) = "none" =>
         last.result.returned = "object" /\ last.result.out = last.result.ret

\* C11 as stated: the return value replaces the result only when it is neither
\* undefined nor null, otherwise the built result is returned.
C11_Original ==
  /\ TransformInvoked
  /\ (Serialized /\ last.result.transform # "none") =>
       LET x == Xform(last.result.transform, last.result.ret)
       IN  IF x.returned \in {"undefined", "null"}
           THEN last.result.returned = "object" /\ last.result.out = last.result.ret
           ELSE last.result.returned = x.returned /\ last.result.out = x.ret

\* C11, amended: the resolved transform function (the call-time function
\* before the schema-level one) is invoked exactly once with the built result;
\* its return value replaces the result whenever it is not undefined (null
\* included: the call then returns null), and the built result is returned
\* when it returns undefined.
C11_TransformReplacesUnlessUndefined ==
  /\ TransformInvoked
  /\ (Serialized /\ last.result.transform # "none") =>
       LET x == Xform(last.result.transform, last.result.ret)
       IN  IF x.returned = "undefined"
           THEN last.result.returned = "object" /\ last.result.out = last.result.ret
           ELSE last.result.returned = x.returned /\ last.result.out = x.ret

C11_Witness ==
  /\ last.op = "toObject"
  /\ last.result.given.transform = "nothing"
  /\ options.toObject.plain /\ options.toObject.transform = "keep"
  /\ last.result.transform = "nothing"
  /\ last.result.calls = 1
  /\ last.result.returned = "null"

\* C12: every field whose value is a date is written as a copy of the date
\* (not the stored date itself) when dateToISO is not true and as the date's
\* ISO-8601 string when it is, and minimize never leaves a date out.
C12_DatesCopiedOrISO ==
  Serialized =>
    \A n \in Eligible(last.result.options) :
      LET v == last.result.read[n]
      IN  v.k = "date" =>
            last.result.ret[n] =
              [present |-> TRUE,
               value |-> IF last.result.options.dateToISO = "true"
                         THEN toISOString(v) ELSE v,
               shared |-> FALSE]

\* the values that toObject() hands on as they are stored
PlainValue(v) ==
  \/ v.k \in {"number", "string", "boolean", "date"}
  \/ v.k \in {"array", "object"} /\ Size(v) > 0

C14_VirtualFullName ==
  descriptor["fullName"].virtual =>
    /\ \A i \in Instances : docs[i].obj["fullName"] = Undefined
    /\ (/\ last.op \in {"set", "assign"}
        /\ \E wr \in Writes : wr.name = "fullName" /\ wr.value = Str("Jim Jones")) =>
         /\ docs[last.inst].obj["firstName"] = Str("Jim")
         /\ docs[last.inst].obj["lastName"] = Str("Jones")
         /\ toObject(World, last.inst, [Plain EXCEPT !.virtuals = "true"])
              .result.out["fullName"]
              = [present |-> TRUE, value |-> Str("Jim Jones"), shared |-> FALSE]
         /\ ~toObject(World, last.inst, NoOptions).result.out["fullName"].present
    /\ Serialized =>
         last.result.out["fullName"] =
           IF Truthy(last.result.options.virtuals)
           THEN [present |-> TRUE,
                 value |-> Str(Text(docs[last.inst].obj["firstName"]) \o " "
                               \o Text(docs[last.inst].obj["lastName"])),
                 shared |-> FALSE]
           ELSE NoEntry

C14_Witness ==
  /\ descriptor["fullName"].virtual
  /\ last.op = "toObject"
  /\ last.result.given = [Plain EXCEPT !.virtuals = "true"]
  /\ docs["a"].obj["firstName"] = Str("Jim")
  /\ docs["a"].obj["lastName"] = Str("Jones")
  /\ docs["a"].obj["fullName"] = Undefined
  /\ last.result.out["fullName"].value = Str("Jim Jones")

\* the writes of a string longer than the field's maxLength
TooLong(wr) ==
  /\ descriptor[wr.name].defined
  /\ descriptor[wr.name].type = "string"
  /\ descriptor[wr.name].maxLength > 0
  /\ wr.value.k = "string"
  /\ Len(wr.value.s) > descriptor[wr.name].maxLength

\* C15: a string longer than the maxLength N of a String field is stored as
\* its first N characters, with no error, when clip is true; without clip
\* the write records an error and leaves the stored value.
C15_MaxLengthClipsOrRejects ==
  \A wr \in Writes :
    TooLong(wr) =>
      IF descriptor[wr.name].clip
      THEN /\ wr.after = Str(SubSeq(wr.value.s, 1, descriptor[wr.name].maxLength))
           /\ Len(wr.after.s) = descriptor[wr.name].maxLength
           /\ wr.added = 0
      ELSE wr.kept /\ wr.added = 1 /\ wr.recorded = "constraint"

C15_Witness ==
  /\ last.op = "set"
  /\ \E wr \in Writes :
       /\ wr.name = "bio" /\ wr.value = Str("abcde") /\ TooLong(wr)
       /\ wr.after = Str(SubSeq("abcde", 1, BioMaxLength))
  /\ docs["a"].obj["stateAbbrev"] = Str("NY")
  /\ \E e \in 1..Len(docs["a"].errors) :
       docs["a"].errors[e] = SetterError("constraint", "stateAbbrev", Str("NYC"))

\* the index of the first occurrence of e in the sequence a
First(a, e) == CHOOSE x \in 1..Len(a) : a[x] = e /\ \A y \in 1..(x - 1) : a[y] # e

\* C16: after a set of an Array field with unique true and an arrayType the
\* stored array holds each element of the input once, in the order in which
\* the input first has them; ["a","a","b"] stores ["a","b"].
C16_UniqueKeepsFirstSeen ==
  \A wr \in Writes :
    (descriptor[wr.name].unique /\ descriptor[wr.name].arrayType # "none"
     /\ wr.value.k = "array") =>
      LET in == wr.value.a
          out == wr.after.a
      IN  /\ wr.after.k = "array"
          /\ {out[x] : x \in 1..Len(out)} = {in[x] : x \in 1..Len(in)}
          /\ \A x, y \in 1..Len(out) :
               x < y => out[x] # out[y] /\ First(in, out[x]) < First(in, out[y])
          /\ in = <<"a", "a", "b">> => out = <<"a", "b">>
          /\ wr.added = 0

C16_Witness ==
  /\ last.op = "set"
  /\ \E wr \in Writes :
       /\ wr.name = "emails" /\ wr.value = Arr(<<"a", "b", "a">>)
       /\ wr.after = Arr(<<"a", "b">>)

\* C17: toObject() / toJSON() leave every stored value of the instance as it
\* was before the call (so that a second call returns what the first did),
\* and no entry of the result is a value that the instance stores.
C17_ToObjectLeavesInstance ==
  Serialized =>
    \A n \in Names :
      (descriptor[n].defined /\ ~descriptor[n].virtual) =>
        /\ docs[last.inst].obj[n] = last.result.read[n]
        /\ last.result.ret[n].present => ~last.result.ret[n].shared

\* C18: a constructor call, whether it returns or raises, leaves the readOnly
\* attribute of every field descriptor of the shared schema as it was before
\* the call.
C18_ConstructorRestoresReadOnly ==
  [][last'.op = "construct" =>
       \A n \in Names :
         descriptor[n].defined =>
           descriptor'[n].defined /\ descriptor'[n].readOnly = descriptor[n].readOnly]_vars

====
